---- MODULE Spec2Model ----
\* The scope graph of crates/eww/src/new_state_stuff.rs: a petgraph DiGraph of
\* Scope nodes joined by Inherits and ProvidesAttribute edges, built by
\* ScopeTree::from_global_vars and ScopeTree::register_new_scope and queried by
\* the upward lookups.
EXTENDS Integers, Sequences, FiniteSets, TLC

VARIABLES
    nodes,        \* graph: the node weights (Scope), node i of petgraph at nodes[i + 1]
    edges,        \* graph: the edge list, in insertion order
    root_index,   \* ScopeTree.root_index
    updates,      \* how many update_value calls were made
    call,         \* the call in progress on the tree, with its arguments
    ret           \* what the last completed call returned, and what it did on the way

vars == <<nodes, edges, root_index, updates, call, ret>>

--------------------------------------------------------------------------
\* Bounds of the model.

\* Scopes the graph may hold, the root included.
MaxScopes == 3

\* Listeners that may be registered.
MaxListeners == 1

\* Calls of update_value that may be made.
MaxUpdates == 1

\* Scopes and listeners where the propagation of one update is followed through
\* several listeners.
MaxPropagateScopes == 2

MaxPropagateListeners == 2

--------------------------------------------------------------------------
\* Option<T>: None is the empty set, Some(x) the singleton.

None == {}

Some(x) == {x}

Unwrap(o) == CHOOSE x \in o : TRUE

Range(s) == {s[i] : i \in 1..Len(s)}

EmptyMap == [x \in {} |-> 0]

Max(S) == CHOOSE x \in S : \A y \in S : y <= x

Min(S) == CHOOSE x \in S : \A y \in S : x <= y

\* The element of a singleton set: The({e(x) : x \in {v}}) is e with x bound to v.
The(S) == CHOOSE x \in S : TRUE

Permutations_of(S) ==
    {s \in [1..Cardinality(S) -> S] : \A i, j \in 1..Cardinality(S) : s[i] = s[j] => i = j}

--------------------------------------------------------------------------
\* SimplExpr, through the two operations the tree uses: collect_var_refs and eval.
\* An expression is one operator applied to the variables it references and a
\* literal: v * k, v + k, or the literal k alone.

Times(v, k) == [op |-> "mul", refs |-> <<v>>, k |-> k]

Plus(v, k) == [op |-> "add", refs |-> <<v>>, k |-> k]

Literal(k) == [op |-> "lit", refs |-> <<>>, k |-> k]

collect_var_refs(expression) == expression.refs

\* SimplExpr::eval: fails when a referenced variable is absent from the environment.
eval(expression, env) ==
    IF \E i \in 1..Len(expression.refs) : expression.refs[i] \notin DOMAIN env
    THEN [ok |-> FALSE, val |-> 0]
    ELSE [ok |-> TRUE,
          val |-> IF expression.op = "mul" THEN env[expression.refs[1]] * expression.k
                  ELSE IF expression.op = "add" THEN env[expression.refs[1]] + expression.k
                  ELSE expression.k]

--------------------------------------------------------------------------
\* Scope and ScopeTreeEdge.

\* NodeIndex::default()
DefaultNodeIndex == 0

\* Scope::new: the node_index is not set yet.
Scope_new(data) == [data |-> data, listeners |-> EmptyMap, node_index |-> DefaultNodeIndex]

Inherits(references) == [kind |-> "Inherits", references |-> references]

ProvidesAttribute(attr_name, expression) ==
    [kind |-> "ProvidesAttribute", attr_name |-> attr_name, expression |-> expression]

is_inherits_relation(weight) == weight.kind = "Inherits"

references_var(weight, name) ==
    IF weight.kind = "Inherits" THEN name \in weight.references ELSE FALSE

--------------------------------------------------------------------------
\* The graph g = [nodes, edges] and its queries.

\* panicked tells that a call on the graph panicked: what follows it in the
\* function that made the call does not happen.
Graph == [nodes |-> nodes, edges |-> edges, panicked |-> FALSE]

NodeIndices(g) == 0..(Len(g.nodes) - 1)

value_at(g, index) == IF index \in NodeIndices(g) THEN Some(g.nodes[index + 1]) ELSE None

\* The closure as it would be if it took every edge for an Inherits edge.
edge_satisfies_any_edge(f, weight) == f = "is_inherits_relation"

\* The closures passed to find_neighbor, by name.
edge_satisfies(f, weight) ==
    IF f = "is_inherits_relation" THEN is_inherits_relation(weight) ELSE FALSE

\* petgraph's neighbors_directed walks the adjacency list of a node from the
\* edge added last to the one added first; find_neighbor returns the first
\* neighbour that some connecting edge in the asked direction satisfies f.
find_neighbor(g, index, dir, f) ==
    LET Here(e) == IF dir = "Outgoing" THEN e.from ELSE e.to
        There(e) == IF dir = "Outgoing" THEN e.to ELSE e.from
        hits == {i \in 1..Len(g.edges) :
                    /\ Here(g.edges[i]) = index
                    /\ \E j \in 1..Len(g.edges) :
                          /\ Here(g.edges[j]) = index
                          /\ There(g.edges[j]) = There(g.edges[i])
                          /\ edge_satisfies(f, g.edges[j].weight)}
    IN  IF hits = {} THEN None ELSE Some(There(g.edges[Max(hits)]))

parent_scope_of(g, index) == find_neighbor(g, index, "Outgoing", "is_inherits_relation")

\* find_available_scope_where as it would be if it asked the parent chain before
\* the scope itself: the farthest binding wins.
RECURSIVE find_available_scope_where_parent_first(_, _, _)
find_available_scope_where_parent_first(g, scope_index, var_name) ==
    LET content == value_at(g, scope_index)
        parent == parent_scope_of(g, scope_index)
        above == IF parent = None THEN None
                 ELSE find_available_scope_where_parent_first(g, Unwrap(parent), var_name)
    IN  IF content = None THEN None
        ELSE IF above # None THEN above
        ELSE IF var_name \in DOMAIN Unwrap(content).data THEN Some(scope_index)
        ELSE None

\* find_available_scope_where with the one predicate the tree passes it,
\* |scope| scope.data.contains_key(var_name).
RECURSIVE find_available_scope_where(_, _, _)
find_available_scope_where(g, scope_index, var_name) ==
    UNION {IF var_name \in DOMAIN content.data THEN Some(scope_index)
           ELSE UNION {find_available_scope_where(g, parent, var_name) :
                          parent \in parent_scope_of(g, scope_index)} :
           content \in value_at(g, scope_index)}

find_scope_with_variable(g, index, var_name) == find_available_scope_where(g, index, var_name)

lookup_variable_in_scope(g, index, var_name) ==
    {x.data[var_name] :
        x \in UNION {value_at(g, scope_index) :
                        scope_index \in find_scope_with_variable(g, index, var_name)}}

--------------------------------------------------------------------------
\* ScopeTree::add_edge and ScopeTree::add_scope.

\* petgraph's Graph::add_edge panics when an end of the edge is not a node of
\* the graph.
add_edge(g, from, to, weight) ==
    IF {from, to} \subseteq NodeIndices(g)
    THEN [g EXCEPT !.edges = Append(@, [from |-> from, to |-> to, weight |-> weight])]
    ELSE [g EXCEPT !.panicked = TRUE]

\* add_scope as it would be with the Inherits edge drawn from the new scope to
\* itself.
add_scope_self_parent(g, parent_scope, scope_variables) ==
    LET scope == Scope_new(scope_variables)
        new_index == Len(g.nodes)
        g1 == [g EXCEPT !.nodes = Append(@, scope)]
        g2 == IF parent_scope # None
              THEN add_edge(g1, new_index, new_index, Inherits({}))
              ELSE g1
        g3 == IF g2.panicked THEN g2
              ELSE [g2 EXCEPT !.nodes[new_index + 1].node_index = new_index]
    IN  [graph |-> g3, new_index |-> new_index]

\* add_scope as it would be with the Inherits edge drawn from the parent to the
\* new scope.
add_scope_edge_reversed(g, parent_scope, scope_variables) ==
    LET scope == Scope_new(scope_variables)
        new_index == Len(g.nodes)
        g1 == [g EXCEPT !.nodes = Append(@, scope)]
        g2 == IF parent_scope # None
              THEN add_edge(g1, Unwrap(parent_scope), new_index, Inherits({}))
              ELSE g1
        g3 == IF g2.panicked THEN g2
              ELSE [g2 EXCEPT !.nodes[new_index + 1].node_index = new_index]
    IN  [graph |-> g3, new_index |-> new_index]

\* add_scope as it would be without the write of node_index after add_node.
add_scope_default_identity(g, parent_scope, scope_variables) ==
    LET scope == Scope_new(scope_variables)
        new_index == Len(g.nodes)
        g1 == [g EXCEPT !.nodes = Append(@, scope)]
        g2 == IF parent_scope # None
              THEN add_edge(g1, new_index, Unwrap(parent_scope), Inherits({}))
              ELSE g1
    IN  [graph |-> g2, new_index |-> new_index]

\* add_scope as it would be if the variables of the new scope were bound in its
\* parent as well.
add_scope_binding_in_parent(g, parent_scope, scope_variables) ==
    LET scope == Scope_new(scope_variables)
        new_index == Len(g.nodes)
        g0 == IF parent_scope # None
              THEN [g EXCEPT !.nodes[Unwrap(parent_scope) + 1].data = scope_variables @@ @]
              ELSE g
        g1 == [g0 EXCEPT !.nodes = Append(@, scope)]
        g2 == IF parent_scope # None
              THEN add_edge(g1, new_index, Unwrap(parent_scope), Inherits({}))
              ELSE g1
        g3 == IF g2.panicked THEN g2
              ELSE [g2 EXCEPT !.nodes[new_index + 1].node_index = new_index]
    IN  [graph |-> g3, new_index |-> new_index]

add_scope(g, parent_scope, scope_variables) ==
    LET scope == Scope_new(scope_variables)
        new_index == Len(g.nodes)
        g1 == [g EXCEPT !.nodes = Append(@, scope)]
        g2 == IF parent_scope # None
              THEN add_edge(g1, new_index, Unwrap(parent_scope), Inherits({}))
              ELSE g1
        g3 == IF g2.panicked THEN g2
              ELSE [g2 EXCEPT !.nodes[new_index + 1].node_index = new_index]
    IN  [graph |-> g3, new_index |-> new_index]

--------------------------------------------------------------------------
\* ScopeTree::register_new_scope.

\* The collect as it would be if the values found did not reach the HashMap.
collect_result_empty_env(refs, values) ==
    LET missing == {i \in 1..Len(refs) : values[i] = None}
    IN  IF missing # {}
        THEN [ok |-> FALSE, var |-> refs[Min(missing)], env |-> EmptyMap]
        ELSE [ok |-> TRUE, var |-> "", env |-> EmptyMap]

\* .collect::<Result<HashMap<_, _>>>() over the looked-up references: the first
\* reference not found ends the collect with its error, [ok, var, env].
collect_result(refs, values) ==
    LET missing == {i \in 1..Len(refs) : values[i] = None}
    IN  IF missing # {}
        THEN [ok |-> FALSE, var |-> refs[Min(missing)], env |-> EmptyMap]
        ELSE [ok |-> TRUE, var |-> "",
              env |-> [v \in Range(refs) |->
                          Unwrap(values[Max({i \in 1..Len(refs) : refs[i] = v})])]]

\* The closure as it would be if it looked the references up from the root scope.
resolve_var_refs_from_root(g, calling_scope, refs) ==
    collect_result(refs, [i \in 1..Len(refs) |-> lookup_variable_in_scope(g, 0, refs[i])])

\* The closure mapped over collect_var_refs(): each reference is looked up from
\* the calling scope; the first one not found ends the collect with its error.
resolve_var_refs(g, calling_scope, refs) ==
    collect_result(refs, [i \in 1..Len(refs) |->
                             lookup_variable_in_scope(g, calling_scope, refs[i])])

\* The first loop as it would be if the error named the attribute in place of
\* the variable that was not found.
RECURSIVE gather_values_naming_attribute(_, _, _, _, _)
gather_values_naming_attribute(g, calling_scope, attributes, order, acc) ==
    IF order = <<>> THEN acc
    ELSE LET attr_name == Head(order)
             attr_value == attributes[attr_name]
             needed_vars == resolve_var_refs(g, calling_scope, collect_var_refs(attr_value))
             current_value == eval(attr_value, needed_vars.env)
         IN  IF ~needed_vars.ok
             THEN [acc EXCEPT !.kind = "Err", !.var = Some(attr_name)]
             ELSE IF ~current_value.ok
             THEN [acc EXCEPT !.kind = "Panic"]
             ELSE gather_values_naming_attribute(g, calling_scope, attributes, Tail(order),
                      [acc EXCEPT
                          !.scope_variables = (attr_name :> current_value.val) @@ @,
                          !.evaluated = Append(@, attr_name)])

\* The first loop, over the attributes in the order the HashMap yields them:
\* acc is [kind, var, scope_variables, evaluated].
RECURSIVE gather_values(_, _, _, _, _)
gather_values(g, calling_scope, attributes, order, acc) ==
    IF order = <<>> THEN acc
    ELSE LET attr_name == Head(order)
             attr_value == attributes[attr_name]
         IN  The({IF ~needed_vars.ok
                  THEN [acc EXCEPT !.kind = "Err", !.var = Some(needed_vars.var)]
                  ELSE The({IF ~current_value.ok
                            THEN [acc EXCEPT !.kind = "Panic"]
                            ELSE gather_values(g, calling_scope, attributes, Tail(order),
                                     [acc EXCEPT
                                         !.scope_variables =
                                             (attr_name :> current_value.val) @@ @,
                                         !.evaluated = Append(@, attr_name)]) :
                            current_value \in {eval(attr_value, needed_vars.env)}}) :
                  needed_vars \in {resolve_var_refs(g, calling_scope,
                                                    collect_var_refs(attr_value))}})

\* The second loop as it would be with the edge drawn from the new scope to the
\* calling scope.
RECURSIVE add_attribute_edges_reversed(_, _, _, _, _)
add_attribute_edges_reversed(g, calling_scope, new_scope_index, attributes, order) ==
    IF order = <<>> \/ g.panicked THEN g
    ELSE add_attribute_edges_reversed(
             add_edge(g, new_scope_index, calling_scope,
                      ProvidesAttribute(Head(order), attributes[Head(order)])),
             calling_scope, new_scope_index, attributes, Tail(order))

\* The second loop: one ProvidesAttribute edge per attribute.
RECURSIVE add_attribute_edges(_, _, _, _, _)
add_attribute_edges(g, calling_scope, new_scope_index, attributes, order) ==
    IF order = <<>> \/ g.panicked THEN g
    ELSE add_attribute_edges(
             add_edge(g, calling_scope, new_scope_index,
                      ProvidesAttribute(Head(order), attributes[Head(order)])),
             calling_scope, new_scope_index, attributes, Tail(order))

\* register_new_scope as it would be with the scope added before the attributes
\* are resolved: a failed call leaves the new node behind.
register_new_scope_commit_first(g, parent_scope, calling_scope, attributes, order) ==
    LET added == add_scope(g, parent_scope, EmptyMap)
        gathered == gather_values(g, calling_scope, attributes, order,
                        [kind |-> "Ok", var |-> None,
                         scope_variables |-> EmptyMap, evaluated |-> <<>>])
    IN  IF gathered.kind # "Ok"
        THEN [graph |-> added.graph, kind |-> gathered.kind, index |-> None,
              var |-> gathered.var, evaluated |-> gathered.evaluated]
        ELSE [graph |-> add_attribute_edges(
                            [added.graph EXCEPT !.nodes[added.new_index + 1].data =
                                gathered.scope_variables],
                            calling_scope, added.new_index, attributes, order),
              kind |-> "Ok", index |-> Some(added.new_index),
              var |-> None, evaluated |-> gathered.evaluated]

\* The whole call: [graph, kind, index, var, evaluated]. The kind is Ok, Err
\* (the error of the first loop) or Panic (an unwrap or add_edge panicked).
register_new_scope(g, parent_scope, calling_scope, attributes, order) ==
    The({IF gathered.kind # "Ok"
         THEN [graph |-> g, kind |-> gathered.kind, index |-> None,
               var |-> gathered.var, evaluated |-> gathered.evaluated]
         ELSE The({IF committed.panicked
                   THEN [graph |-> committed, kind |-> "Panic", index |-> None,
                         var |-> None, evaluated |-> gathered.evaluated]
                   ELSE [graph |-> committed, kind |-> "Ok",
                         index |-> Some(Len(g.nodes)),
                         var |-> None, evaluated |-> gathered.evaluated] :
                   committed \in
                       {The({add_attribute_edges(added.graph, calling_scope,
                                 added.new_index, attributes, order) :
                             added \in {add_scope(g, parent_scope,
                                                  gathered.scope_variables)}})}}) :
         gathered \in {gather_values(g, calling_scope, attributes, order,
                           [kind |-> "Ok", var |-> None,
                            scope_variables |-> EmptyMap, evaluated |-> <<>>])}})

--------------------------------------------------------------------------
\* Listeners: ScopeTree::register_listener, run_listeners_for_value_change and
\* update_value. A listener is [id, needed_variables, fails]: id is the identity
\* of its Arc allocation, fails tells whether its callback f returns Err.

Listener(id, needed_variables, fails) ==
    [id |-> id, needed_variables |-> needed_variables, fails |-> fails]

\* register_listener's while loop: walk up from cur until a parent binds
\* needed_var, and link index to that parent; no link when none binds it.
RECURSIVE link_to_defining_parent(_, _, _, _)
link_to_defining_parent(g, index, cur_idx, needed_var) ==
    The({IF parent = None THEN g
         ELSE IF needed_var \in DOMAIN g.nodes[Unwrap(parent) + 1].data
         THEN add_edge(g, index, Unwrap(parent), Inherits({needed_var}))
         ELSE link_to_defining_parent(g, index, Unwrap(parent), needed_var) :
         parent \in {parent_scope_of(g, cur_idx)}})

\* register_listener's first loop, over needed_variables.
RECURSIVE link_needed_variables(_, _, _)
link_needed_variables(g, index, needed) ==
    IF needed = <<>> THEN g
    ELSE link_needed_variables(
             IF Head(needed) \in DOMAIN g.nodes[index + 1].data THEN g
             ELSE link_to_defining_parent(g, index, index, Head(needed)),
             index, Tail(needed))

\* register_listener's second loop: scope.listeners.entry(var).or_default().push(listener)
RECURSIVE push_listener(_, _, _)
push_listener(registry, listener, needed) ==
    IF needed = <<>> THEN registry
    ELSE push_listener(
             IF Head(needed) \in DOMAIN registry
             THEN [registry EXCEPT ![Head(needed)] = Append(@, listener)]
             ELSE (Head(needed) :> <<listener>>) @@ registry,
             listener, Tail(needed))

\* The whole call: [graph, kind].
register_listener(g, index, listener) ==
    IF listener.needed_variables # <<>> /\ value_at(g, index) = None
    THEN [graph |-> g, kind |-> "Err"]
    ELSE IF value_at(g, index) = None THEN [graph |-> g, kind |-> "Ok"]
    ELSE [graph |-> [link_needed_variables(g, index, listener.needed_variables)
                        EXCEPT !.nodes[index + 1].listeners =
                            push_listener(@, listener, listener.needed_variables)],
          kind |-> "Ok"]

\* assemble_all_vars as it would be if every local binding of the scope went
\* into the environment beside the needed variables.
assemble_all_vars_with_locals(g, index, needed) ==
    LET Get(key) ==
            IF key \in DOMAIN g.nodes[index + 1].data
            THEN Some(g.nodes[index + 1].data[key])
            ELSE lookup_variable_in_scope(g, index, key)
    IN  IF \E i \in 1..Len(needed) : Get(needed[i]) = None
        THEN [ok |-> FALSE, all_vars |-> EmptyMap]
        ELSE [ok |-> TRUE,
              all_vars |-> [key \in Range(needed) \cup DOMAIN g.nodes[index + 1].data |->
                               Unwrap(Get(key))]]

\* The environment run_listeners_for_value_change assembles for one listener:
\* scope.data first, else the upward lookup; the first key found nowhere fails.
assemble_all_vars(g, index, needed) ==
    The({IF \E i \in 1..Len(needed) : found[i] = None
         THEN [ok |-> FALSE, all_vars |-> EmptyMap]
         ELSE [ok |-> TRUE,
               all_vars |-> [key \in Range(needed) |->
                                Unwrap(found[Max({i \in 1..Len(needed) : needed[i] = key})])]] :
         found \in {[i \in 1..Len(needed) |->
                        IF needed[i] \in DOMAIN g.nodes[index + 1].data
                        THEN Some(g.nodes[index + 1].data[needed[i]])
                        ELSE lookup_variable_in_scope(g, index, needed[i])]}})

\* The loop over the listeners of one variable: acc is [ok, calls]; a call is
\* [listener, scope, values]. The first error ends the loop.
RECURSIVE run_listener_list(_, _, _, _)
run_listener_list(g, index, listeners, acc) ==
    IF listeners = <<>> THEN acc
    ELSE LET listener == Head(listeners)
         IN  The({IF ~env.ok THEN [acc EXCEPT !.ok = FALSE]
                  ELSE IF listener.fails
                  THEN [acc EXCEPT !.ok = FALSE,
                                   !.calls = Append(@, [listener |-> listener.id,
                                                        scope |-> index,
                                                        values |-> env.all_vars])]
                  ELSE run_listener_list(g, index, Tail(listeners),
                           [acc EXCEPT !.calls = Append(@, [listener |-> listener.id,
                                                            scope |-> index,
                                                            values |-> env.all_vars])]) :
                  env \in {assemble_all_vars(g, index, listener.needed_variables)}})

run_listeners_for_value_change(g, index, var_name, acc) ==
    IF value_at(g, index) = None THEN [acc EXCEPT !.ok = FALSE]
    ELSE IF var_name \notin DOMAIN g.nodes[index + 1].listeners THEN acc
    ELSE run_listener_list(g, index, g.nodes[index + 1].listeners[var_name], acc)

\* The scopes that hold a dependency link on var_name to index, each once, in
\* the order of their indices.
children_referencing(g, index, var_name) ==
    LET children == {g.edges[i].from : i \in {j \in 1..Len(g.edges) :
                        g.edges[j].to = index /\ references_var(g.edges[j].weight, var_name)}}
        Sorted(S) == CHOOSE s \in [1..Cardinality(S) -> S] :
                        \A i, j \in 1..Cardinality(S) : i < j => s[i] < s[j]
    IN  Sorted(children)

\* update_value's loop over the children.
RECURSIVE run_children(_, _, _, _)
run_children(g, children, var_name, acc) ==
    IF children = <<>> \/ ~acc.ok THEN acc
    ELSE run_children(g, Tail(children), var_name,
             run_listeners_for_value_change(g, Head(children), var_name,
                 [acc EXCEPT !.notified = Append(@, <<Head(children), var_name>>)]))

\* The write of update_value: the binding of var_name in the scope at index.
write_value(g, index, var_name, value) ==
    IF value_at(g, index) # None /\ var_name \in DOMAIN g.nodes[index + 1].data
    THEN [g EXCEPT !.nodes[index + 1].data[var_name] = value]
    ELSE g

\* update_value as it would be if the scope found by find_scope_with_variable were
\* not the one written: the write goes to the scope the caller named.
update_value_at_given_index(g, index, var_name, value) ==
    LET found == find_scope_with_variable(g, index, var_name)
    IN  IF found = None
        THEN [graph |-> g, kind |-> "Err", calls |-> <<>>, notified |-> <<>>]
        ELSE LET defining == Unwrap(found)
                 g1 == write_value(g, index, var_name, value)
                 own == run_listeners_for_value_change(g1, defining, var_name,
                            [ok |-> TRUE, calls |-> <<>>,
                             notified |-> <<<<defining, var_name>>>>])
                 all == run_children(g1, children_referencing(g1, defining, var_name),
                                     var_name, own)
             IN  [graph |-> g1, kind |-> IF all.ok THEN "Ok" ELSE "Err",
                  calls |-> all.calls, notified |-> all.notified]

\* The write as it would be with an insert in place of get_mut: a scope that
\* does not bind var_name gets a binding of its own.
write_value_insert(g, index, var_name, value) ==
    IF value_at(g, index) # None
    THEN [g EXCEPT !.nodes[index + 1].data = (var_name :> value) @@ @]
    ELSE g

\* update_value as it would be if it inserted the value into the scope the
\* caller named.
update_value_insert_local(g, index, var_name, value) ==
    LET found == find_scope_with_variable(g, index, var_name)
    IN  IF found = None
        THEN [graph |-> g, kind |-> "Err", calls |-> <<>>, notified |-> <<>>]
        ELSE LET defining == Unwrap(found)
                 g1 == write_value_insert(g, index, var_name, value)
                 own == run_listeners_for_value_change(g1, defining, var_name,
                            [ok |-> TRUE, calls |-> <<>>,
                             notified |-> <<<<defining, var_name>>>>])
                 all == run_children(g1, children_referencing(g1, defining, var_name),
                                     var_name, own)
             IN  [graph |-> g1, kind |-> IF all.ok THEN "Ok" ELSE "Err",
                  calls |-> all.calls, notified |-> all.notified]

\* The whole call: [graph, kind, calls, notified].
update_value(g, index, var_name, value) ==
    LET found == find_scope_with_variable(g, index, var_name)
    IN  IF found = None
        THEN [graph |-> g, kind |-> "Err", calls |-> <<>>, notified |-> <<>>]
        ELSE LET defining == Unwrap(found)
                 g1 == write_value(g, defining, var_name, value)
                 own == run_listeners_for_value_change(g1, defining, var_name,
                            [ok |-> TRUE, calls |-> <<>>,
                             notified |-> <<<<defining, var_name>>>>])
                 all == run_children(g1, children_referencing(g1, defining, var_name),
                                     var_name, own)
             IN  [graph |-> g1, kind |-> IF all.ok THEN "Ok" ELSE "Err",
                  calls |-> all.calls, notified |-> all.notified]

--------------------------------------------------------------------------
\* build_gtk_widget. A widget use is [name, attrs], attrs the attributes already
\* as expressions; a widget definition is [widget], the use that is its body.

WidgetUse(name, attrs) == [name |-> name, attrs |-> attrs]

WidgetDefinition(widget) == [widget |-> widget]

\* build_gtk_widget as it would be if the new scope inherited from the scope the
\* use is built in.
build_gtk_widget_parent_is_caller(g, root_index_of_tree, scope_index, widget_defs, widget_use, order) ==
    IF widget_use.name \in DOMAIN widget_defs
    THEN LET r == register_new_scope(g, Some(scope_index), scope_index,
                                     widget_use.attrs, order)
         IN  IF r.kind = "Ok"
             THEN [graph |-> r.graph, kind |-> "Recurse", scope_index |-> Unwrap(r.index),
                   widget_use |-> widget_defs[widget_use.name].widget, var |-> None]
             ELSE [graph |-> r.graph, kind |-> r.kind, scope_index |-> scope_index,
                   widget_use |-> widget_use, var |-> r.var]
    ELSE IF widget_use.name = "label"
    THEN [graph |-> g,
          kind |-> IF "text" \in DOMAIN widget_use.attrs THEN "Todo" ELSE "MissingText",
          scope_index |-> scope_index, widget_use |-> widget_use, var |-> None]
    ELSE [graph |-> g, kind |-> "Unknown", scope_index |-> scope_index,
          widget_use |-> widget_use, var |-> None]

\* One level of build_gtk_widget: [graph, kind, scope_index, widget_use, var].
\* For a defined widget it registers a scope and, kind Recurse, goes on with the
\* body of the definition in that scope, or returns the error of the
\* registration; for label it returns the error of the missing text attribute
\* (MissingText) or reaches todo!() (Todo); for any other name it bails (Unknown).
build_gtk_widget(g, root_index_of_tree, scope_index, widget_defs, widget_use, order) ==
    IF widget_use.name \in DOMAIN widget_defs
    THEN The({IF r.kind = "Ok"
              THEN [graph |-> r.graph, kind |-> "Recurse",
                    scope_index |-> Unwrap(r.index),
                    widget_use |-> widget_defs[widget_use.name].widget, var |-> None]
              ELSE [graph |-> r.graph, kind |-> r.kind, scope_index |-> scope_index,
                    widget_use |-> widget_use, var |-> r.var] :
              r \in {register_new_scope(g, Some(root_index_of_tree), scope_index,
                                        widget_use.attrs, order)}})
    ELSE IF widget_use.name = "label"
    THEN [graph |-> g,
          kind |-> IF "text" \in DOMAIN widget_use.attrs THEN "Todo" ELSE "MissingText",
          scope_index |-> scope_index, widget_use |-> widget_use, var |-> None]
    ELSE [graph |-> g, kind |-> "Unknown", scope_index |-> scope_index,
          widget_use |-> widget_use, var |-> None]

--------------------------------------------------------------------------
\* Inputs.

VarNames == {"count", "doubled", "missing_var"}

AttributeInputs ==
    {EmptyMap,
     "doubled" :> Times("count", 2),
     "count" :> Times("count", 2),
     "doubled" :> Times("doubled", 2),
     "doubled" :> Plus("missing_var", 1),
     ("count" :> Times("count", 2)) @@ ("doubled" :> Plus("missing_var", 1)),
     ("count" :> Times("count", 2)) @@ ("doubled" :> Times("count", 2))}

\* Attributes given as literals: they reference no variable.
LiteralAttributeInputs == {"doubled" :> Literal(2)}

\* The attributes of the widget uses.
UseAttributeInputs ==
    {EmptyMap,
     "doubled" :> Times("count", 2),
     "doubled" :> Plus("missing_var", 1),
     "text" :> Times("count", 2)}

\* The widget definitions: a chain of two definitions that ends in a label or in
\* a name that is no widget, a definition that uses itself, and two that use
\* each other.
WidgetDefInputs ==
    {("a" :> WidgetDefinition(WidgetUse("b", attrs)))
        @@ ("b" :> WidgetDefinition(WidgetUse(last, attrs))) :
            attrs \in UseAttributeInputs, last \in {"label", "foo"}}
    \cup {"a" :> WidgetDefinition(WidgetUse("a", EmptyMap)),
          ("a" :> WidgetDefinition(WidgetUse("b", EmptyMap)))
             @@ ("b" :> WidgetDefinition(WidgetUse("a", EmptyMap)))}

WidgetUseInputs == {WidgetUse(name, attrs) : name \in {"a", "b", "label", "foo"},
                                            attrs \in UseAttributeInputs}

GlobalVarInputs == {"count" :> 1}

UpdateValues == {5}

NeededVariableInputs == {<<"count">>, <<"count", "count">>, <<"doubled", "count">>}

--------------------------------------------------------------------------
\* The state machine: a call is made (its arguments are chosen), then it runs
\* to its return in one step.

NoCall ==
    [op |-> "none", parent_scope |-> None, calling_scope |-> 0, attributes |-> EmptyMap,
     index |-> 0, var_name |-> "", value |-> 0, needed_variables |-> <<>>, fails |-> FALSE,
     widget_defs |-> EmptyMap, widget_use |-> WidgetUse("", EmptyMap)]

\* registered lists what build_gtk_widget registered, level by level, as
\* [scope, calling_scope, name].
NoReturn ==
    [op |-> "from_global_vars", kind |-> "Ok", index |-> None, var |-> None,
     evaluated |-> <<>>, calls |-> <<>>, notified |-> <<>>, registered |-> <<>>]

ListenerIds(g) ==
    UNION {UNION {{g.nodes[n].listeners[v][i].id : i \in 1..Len(g.nodes[n].listeners[v])} :
                     v \in DOMAIN g.nodes[n].listeners} :
              n \in 1..Len(g.nodes)}

\* ScopeTree::from_global_vars
from_global_vars(global_vars) ==
    LET g1 == [nodes |-> <<[data |-> global_vars, listeners |-> EmptyMap,
                            node_index |-> DefaultNodeIndex]>>,
               edges |-> <<>>, panicked |-> FALSE]
        root == 0
    IN  [graph |-> [g1 EXCEPT !.nodes[root + 1].node_index = root], root_index |-> root]

Init ==
    \E global_vars \in GlobalVarInputs :
        LET tree == from_global_vars(global_vars)
        IN  /\ nodes = tree.graph.nodes
            /\ edges = tree.graph.edges
            /\ root_index = tree.root_index
            /\ updates = 0
            /\ call = NoCall
            /\ ret = NoReturn

CallRegisterNewScope ==
    /\ call.op = "none"
    /\ Len(nodes) < MaxScopes
    /\ \E parent_scope \in {None} \cup {Some(i) : i \in NodeIndices(Graph)},
          calling_scope \in NodeIndices(Graph),
          attributes \in AttributeInputs :
        call' = [NoCall EXCEPT !.op = "register_new_scope", !.parent_scope = parent_scope,
                               !.calling_scope = calling_scope, !.attributes = attributes]
    /\ UNCHANGED <<nodes, edges, root_index, updates, ret>>

ReturnRegisterNewScope ==
    /\ call.op = "register_new_scope"
    /\ \E order \in Permutations_of(DOMAIN call.attributes) :
        LET r == register_new_scope(Graph, call.parent_scope, call.calling_scope,
                                    call.attributes, order)
        IN  /\ nodes' = r.graph.nodes
            /\ edges' = r.graph.edges
            /\ ret' = [NoReturn EXCEPT !.op = "register_new_scope", !.kind = r.kind,
                                       !.index = r.index, !.var = r.var,
                                       !.evaluated = r.evaluated]
    /\ call' = NoCall
    /\ UNCHANGED <<root_index, updates>>

CallUpdateValue ==
    /\ call.op = "none"
    /\ updates < MaxUpdates
    /\ updates' = updates + 1
    /\ \E index \in NodeIndices(Graph), var_name \in VarNames, value \in UpdateValues :
        call' = [NoCall EXCEPT !.op = "update_value", !.index = index,
                               !.var_name = var_name, !.value = value]
    /\ UNCHANGED <<nodes, edges, root_index, ret>>

ReturnUpdateValue ==
    /\ call.op = "update_value"
    /\ LET r == update_value(Graph, call.index, call.var_name, call.value)
       IN  /\ nodes' = r.graph.nodes
           /\ edges' = r.graph.edges
           /\ ret' = [NoReturn EXCEPT !.op = "update_value", !.kind = r.kind,
                                      !.calls = r.calls, !.notified = r.notified]
    /\ call' = NoCall
    /\ UNCHANGED <<root_index, updates>>

\* A call of register_listener, with its arguments.
RegisterListenerCall ==
    /\ call.op = "none"
    /\ \E index \in NodeIndices(Graph), needed_variables \in NeededVariableInputs,
          fails \in BOOLEAN :
        call' = [NoCall EXCEPT !.op = "register_listener", !.index = index,
                               !.needed_variables = needed_variables, !.fails = fails]
    /\ UNCHANGED <<nodes, edges, root_index, updates, ret>>

CallRegisterListener ==
    /\ Cardinality(ListenerIds(Graph)) < MaxListeners
    /\ RegisterListenerCall

ReturnRegisterListener ==
    /\ call.op = "register_listener"
    /\ LET r == register_listener(Graph, call.index,
                    Listener(Cardinality(ListenerIds(Graph)) + 1,
                             call.needed_variables, call.fails))
       IN  /\ nodes' = r.graph.nodes
           /\ edges' = r.graph.edges
           /\ ret' = [NoReturn EXCEPT !.op = "register_listener", !.kind = r.kind]
    /\ call' = NoCall
    /\ UNCHANGED <<root_index, updates>>

\* The tree as built by do_stuff and build_gtk_widget: registrations only.
NextBuild ==
    \/ CallRegisterNewScope
    \/ ReturnRegisterNewScope

SpecBuild == Init /\ [][NextBuild]_vars

\* The tree with its listeners and value updates.
Next ==
    \/ CallRegisterNewScope
    \/ ReturnRegisterNewScope
    \/ CallUpdateValue
    \/ ReturnUpdateValue
    \/ CallRegisterListener
    \/ ReturnRegisterListener

Spec == Init /\ [][Next]_vars

\* The same calls on a smaller tree that may hold several listeners.
CallRegisterScopeToPropagate ==
    /\ Len(nodes) < MaxPropagateScopes
    /\ CallRegisterNewScope

CallRegisterListenerToPropagate ==
    /\ Cardinality(ListenerIds(Graph)) < MaxPropagateListeners
    /\ RegisterListenerCall

NextPropagate ==
    \/ CallRegisterScopeToPropagate
    \/ ReturnRegisterNewScope
    \/ CallRegisterListenerToPropagate
    \/ ReturnRegisterListener
    \/ CallUpdateValue
    \/ ReturnUpdateValue

SpecPropagate == Init /\ [][NextPropagate]_vars

\* The NodeIndex values a caller can hand over: the indices of the graph, the
\* index the next node will get, and one beyond it.
AnyIndices(g) == 0..(Len(g.nodes) + 1)

\* register_new_scope called with any NodeIndex for its scopes. A panic unwinds
\* through the caller: no call follows it. The parent is never the index the
\* new node will get: that scope would be its own parent, and the lookup of a
\* variable it does not bind would not return.
CallRegisterNewScopeAnyIndex ==
    /\ call.op = "none"
    /\ ret.kind # "Panic"
    /\ Len(nodes) < MaxScopes
    /\ \E parent_scope \in {None} \cup {Some(i) : i \in AnyIndices(Graph) \ {Len(nodes)}},
          calling_scope \in AnyIndices(Graph),
          attributes \in AttributeInputs \cup LiteralAttributeInputs :
        call' = [NoCall EXCEPT !.op = "register_new_scope", !.parent_scope = parent_scope,
                               !.calling_scope = calling_scope, !.attributes = attributes]
    /\ UNCHANGED <<nodes, edges, root_index, updates, ret>>

NextAnyIndex ==
    \/ CallRegisterNewScopeAnyIndex
    \/ ReturnRegisterNewScope

SpecAnyIndex == Init /\ [][NextAnyIndex]_vars

\* build_gtk_widget is called for a widget use in a scope of the tree. A panic
\* unwinds through the caller: no call follows it.
CallBuildGtkWidget ==
    /\ call.op = "none"
    /\ ret.kind \notin {"Panic", "Todo"}
    /\ \E scope_index \in NodeIndices(Graph), widget_defs \in WidgetDefInputs,
          widget_use \in WidgetUseInputs :
        call' = [NoCall EXCEPT !.op = "build_gtk_widget", !.index = scope_index,
                               !.widget_defs = widget_defs, !.widget_use = widget_use]
    /\ ret' = [NoReturn EXCEPT !.op = "build_gtk_widget", !.kind = "Running"]
    /\ UNCHANGED <<nodes, edges, root_index, updates>>

\* One level of the recursion of build_gtk_widget; the last one returns.
EnterBuildGtkWidget ==
    /\ call.op = "build_gtk_widget"
    /\ call.widget_use.name \in DOMAIN call.widget_defs => Len(nodes) < MaxScopes
    /\ \E order \in Permutations_of(DOMAIN call.widget_use.attrs) :
          \E r \in {build_gtk_widget(Graph, root_index, call.index, call.widget_defs,
                                     call.widget_use, order)} :
              /\ nodes' = r.graph.nodes
              /\ edges' = r.graph.edges
              /\ IF r.kind = "Recurse"
                 THEN /\ call' = [call EXCEPT !.index = r.scope_index,
                                              !.widget_use = r.widget_use]
                      /\ ret' = [ret EXCEPT !.registered =
                                    Append(@, [scope |-> r.scope_index,
                                               calling_scope |-> call.index,
                                               name |-> call.widget_use.name])]
                 ELSE /\ call' = NoCall
                      /\ ret' = [ret EXCEPT !.kind = r.kind, !.var = r.var]
    /\ UNCHANGED <<root_index, updates>>

NextWidgets ==
    \/ CallBuildGtkWidget
    \/ EnterBuildGtkWidget

SpecWidgets == Init /\ [][NextWidgets]_vars

--------------------------------------------------------------------------
\* Properties.

GraphNext == [nodes |-> nodes', edges |-> edges', panicked |-> FALSE]

\* Some attribute expression references a variable not visible from calling_scope.
HasUnresolved(g, calling_scope, attributes) ==
    \E a \in DOMAIN attributes :
        \E i \in 1..Len(collect_var_refs(attributes[a])) :
            lookup_variable_in_scope(g, calling_scope, collect_var_refs(attributes[a])[i]) = None

\* C1: a register_new_scope call in which some attribute expression references
\* a variable that is not visible from the calling scope returns an error and
\* leaves the nodes, the edges, every binding and every lookup as they were.
C1_AtomicFailure ==
    [][(/\ call.op = "register_new_scope"
        /\ HasUnresolved(Graph, call.calling_scope, call.attributes))
       => (/\ ret'.kind = "Err"
           /\ nodes' = nodes
           /\ edges' = edges
           /\ \A s \in NodeIndices(Graph), v \in VarNames :
                  lookup_variable_in_scope(GraphNext, s, v)
                      = lookup_variable_in_scope(Graph, s, v))]_vars

\* A call failed after it had already resolved and evaluated one attribute,
\* on a graph that holds more than the root.
C1_Witness ==
    /\ ret.op = "register_new_scope"
    /\ ret.kind = "Err"
    /\ ret.evaluated # <<>>
    /\ Len(nodes) > 1

\* The scopes index, parent(index), parent(parent(index)), ... as far as
\* parent_scope_of leads, and no more than fuel of them.
RECURSIVE ParentChain(_, _, _)
ParentChain(g, index, fuel) ==
    IF fuel = 0 THEN <<>>
    ELSE LET parent == parent_scope_of(g, index)
         IN  IF parent = None THEN <<index>>
             ELSE <<index>> \o ParentChain(g, Unwrap(parent), fuel - 1)

Chain(s) == ParentChain(Graph, s, Len(nodes))

\* The places on a chain whose scope binds v locally.
Binders(chain, v) == {i \in 1..Len(chain) : v \in DOMAIN nodes[chain[i] + 1].data}

\* C2: for every scope s and variable v, find_scope_with_variable(s, v) is the
\* first scope on the chain s, parent(s), parent(parent(s)), ... that binds v
\* locally and lookup_variable_in_scope(s, v) is the value bound there; both are
\* none exactly when no scope on the chain binds v.
C2_NearestAncestorLookup ==
    \A s \in NodeIndices(Graph) :
        LET chain == Chain(s)
        IN  \A v \in VarNames :
                LET binders == Binders(chain, v)
                IN  IF binders = {}
                    THEN /\ find_scope_with_variable(Graph, s, v) = None
                         /\ lookup_variable_in_scope(Graph, s, v) = None
                    ELSE LET nearest == chain[Min(binders)]
                         IN  /\ find_scope_with_variable(Graph, s, v) = Some(nearest)
                             /\ lookup_variable_in_scope(Graph, s, v)
                                    = Some(nodes[nearest + 1].data[v])

\* A scope two steps below the root whose chain binds count twice, with
\* different values, the nearer binding not its own; missing_var is bound nowhere.
C2_Witness ==
    \E s \in NodeIndices(Graph) :
        /\ Len(Chain(s)) = 3
        /\ Binders(Chain(s), "count") = {2, 3}
        /\ nodes[Chain(s)[2] + 1].data["count"] # nodes[Chain(s)[3] + 1].data["count"]
        /\ Binders(Chain(s), "missing_var") = {}

\* The edges a step appended to the edge list.
AddedEdges == {edges'[i] : i \in (Len(edges) + 1)..Len(edges')}

\* C3: a successful register_new_scope with N attributes adds one node, N
\* ProvidesAttribute edges from the calling scope to the new scope, one per
\* attribute name and each carrying that attribute's own expression, one Inherits
\* edge from the new scope to the parent when a parent was given, and no other
\* edge; the edges that were there stay.
C3_CommittedEdges ==
    [][(call.op = "register_new_scope" /\ ret'.kind = "Ok")
       => LET new == Len(nodes)
              provided == {e \in AddedEdges : e.weight.kind = "ProvidesAttribute"}
              inherited == {e \in AddedEdges : e.weight.kind = "Inherits"}
          IN  /\ ret'.index = Some(new)
              /\ Len(nodes') = Len(nodes) + 1
              /\ SubSeq(edges', 1, Len(edges)) = edges
              /\ Len(edges') = Len(edges) + Cardinality(DOMAIN call.attributes)
                                 + (IF call.parent_scope = None THEN 0 ELSE 1)
              /\ provided = {[from |-> call.calling_scope, to |-> new,
                              weight |-> ProvidesAttribute(a, call.attributes[a])] :
                                 a \in DOMAIN call.attributes}
              /\ inherited = {[from |-> new, to |-> p, weight |-> Inherits({})] :
                                 p \in call.parent_scope}]_vars

\* A scope was registered with two attributes, under a parent that is not its
\* calling scope.
C3_Witness ==
    /\ ret.op = "register_new_scope"
    /\ ret.kind = "Ok"
    /\ \E new \in ret.index :
          /\ Cardinality({i \in 1..Len(edges) :
                 edges[i].to = new /\ edges[i].weight.kind = "ProvidesAttribute"}) = 2
          /\ \E i, j \in 1..Len(edges) :
                 /\ edges[i].from = new /\ edges[i].weight.kind = "Inherits"
                 /\ edges[j].to = new /\ edges[j].weight.kind = "ProvidesAttribute"
                 /\ edges[j].from # edges[i].to

\* The value of an expression for a scope: every variable it references looked
\* up from that scope; none when one of them is not visible from it.
ValueFrom(g, scope, expression) ==
    LET refs == Range(collect_var_refs(expression))
    IN  IF \E v \in refs : lookup_variable_in_scope(g, scope, v) = None THEN None
        ELSE Some(eval(expression,
                       [v \in refs |-> Unwrap(lookup_variable_in_scope(g, scope, v))]).val)

\* C4: after a successful register_new_scope the new scope binds exactly the
\* attribute names, each to its expression evaluated with every referenced
\* variable looked up from the calling scope in the graph before the call.
C4_NewScopeBindings ==
    [][(call.op = "register_new_scope" /\ ret'.kind = "Ok")
       => LET data == nodes'[Len(nodes) + 1].data
          IN  /\ DOMAIN data = DOMAIN call.attributes
              /\ \A a \in DOMAIN call.attributes :
                     Some(data[a])
                        = ValueFrom(Graph, call.calling_scope, call.attributes[a])]_vars

\* A scope was registered under the root with doubled = count * 2 by a calling
\* scope that shadows the root's count = 1 with count = 2: doubled is 4, where
\* the parent's count would have given 2.
C4_Witness ==
    /\ ret.op = "register_new_scope"
    /\ ret.kind = "Ok"
    /\ \E new \in ret.index :
          /\ nodes[new + 1].data = ("doubled" :> 4)
          /\ parent_scope_of(Graph, new) = Some(root_index)
          /\ nodes[root_index + 1].data["count"] = 1
          /\ \E i \in 1..Len(edges) :
                 /\ edges[i].to = new
                 /\ edges[i].weight = ProvidesAttribute("doubled", Times("count", 2))
                 /\ nodes[edges[i].from + 1].data = ("count" :> 2)

\* The Inherits edges that leave scope s.
InheritsOut(s) ==
    {i \in 1..Len(edges) : edges[i].from = s /\ is_inherits_relation(edges[i].weight)}

\* C5, as claimed: every scope other than the root has exactly one outgoing
\* Inherits edge and the root has none.
C5_ExactlyOneParent ==
    \A s \in NodeIndices(Graph) :
        Cardinality(InheritsOut(s)) = IF s = root_index THEN 0 ELSE 1

\* C5, amended: every scope has at most one outgoing Inherits edge and the root
\* has none; a scope registered with a parent has exactly one, to that parent,
\* and a scope registered with parent_scope = None has none.
C5_AtMostOneParent ==
    /\ [](\A s \in NodeIndices(Graph) :
             Cardinality(InheritsOut(s)) <= IF s = root_index THEN 0 ELSE 1)
    /\ [][(call.op = "register_new_scope" /\ ret'.kind = "Ok")
           => {edges'[i].to : i \in {j \in 1..Len(edges') :
                                       /\ edges'[j].from = Len(nodes)
                                       /\ is_inherits_relation(edges'[j].weight)}}
                 = call.parent_scope]_vars

\* The graph holds a scope registered without a parent beside one that
\* inherits from a scope other than the root.
C5_Witness ==
    \E s, t \in NodeIndices(Graph) :
        /\ s # root_index
        /\ InheritsOut(s) = {}
        /\ \E i \in InheritsOut(t) : edges[i].to # root_index

\* The scopes reached from the scopes of S over one Inherits edge.
InheritsStep(S) == {edges[i].to : i \in UNION {InheritsOut(s) : s \in S}}

\* The scopes reached from the scopes of S over one or more Inherits edges, in
\* at most fuel rounds.
RECURSIVE InheritsReach(_, _)
InheritsReach(S, fuel) ==
    IF fuel = 0 THEN {}
    ELSE InheritsStep(S) \cup InheritsReach(InheritsStep(S), fuel - 1)

NoRepeat(chain) == \A i, j \in 1..Len(chain) : chain[i] = chain[j] => i = j

AttributeEdges == {i \in 1..Len(edges) : edges[i].weight.kind = "ProvidesAttribute"}

\* The bindings <<scope, variable>> that one of the bindings of B flows into:
\* attributes whose expression references a variable that resolves, from the
\* calling scope of the attribute's edge, to a binding of B.
FlowsInto(B) ==
    {<<edges[i].to, edges[i].weight.attr_name>> :
        i \in {j \in AttributeEdges :
                  \E k \in 1..Len(collect_var_refs(edges[j].weight.expression)) :
                      LET r == collect_var_refs(edges[j].weight.expression)[k]
                          found == find_scope_with_variable(Graph, edges[j].from, r)
                      IN  found # None /\ <<Unwrap(found), r>> \in B}}

\* The bindings downstream of B along chains of ProvidesAttribute edges.
RECURSIVE Downstream(_, _)
Downstream(B, fuel) ==
    IF fuel = 0 THEN {} ELSE FlowsInto(B) \cup Downstream(FlowsInto(B), fuel - 1)

\* C7: after update_value has written variable v, every attribute downstream
\* of v along ProvidesAttribute edges equals its expression evaluated again from
\* its calling scope (root count = 1, doubled = count * 2; after
\* update_value(root, count, 5) the new scope's doubled is 10).
C7_RederivedAfterUpdate ==
    (ret.op = "update_value" /\ ret.notified # <<>>)
    => \A i \in AttributeEdges :
           <<edges[i].to, edges[i].weight.attr_name>>
                \in Downstream({ret.notified[1]}, Len(nodes))
           => lookup_variable_in_scope(Graph, edges[i].to, edges[i].weight.attr_name)
                 = ValueFrom(Graph, edges[i].from, edges[i].weight.expression)

\* C8: update_value(S, v, x) on a scope S from which v is visible, followed by
\* lookup_variable_in_scope(S, v), yields x.
C8_WriteThenRead ==
    [][(/\ call.op = "update_value"
        /\ lookup_variable_in_scope(Graph, call.index, call.var_name) # None)
       => lookup_variable_in_scope(GraphNext, call.index, call.var_name)
             = Some(call.value)]_vars

\* update_value wrote a new value through inheritance: some scope that does not
\* bind the written variable itself now reads the written value, which its
\* defining scope did not hold when it was registered (count was 1).
C8_Witness ==
    /\ ret.op = "update_value"
    /\ ret.notified # <<>>
    /\ ret.notified[1][2] = "count"
    /\ \E s \in NodeIndices(Graph) :
          /\ "count" \notin DOMAIN nodes[s + 1].data
          /\ find_scope_with_variable(Graph, s, "count") = Some(ret.notified[1][1])
          /\ lookup_variable_in_scope(Graph, s, "count") = Some(5)

\* C9: when v is bound not in S but in its nearest binding ancestor A,
\* update_value(S, v, x) changes the binding of v in A and nothing else: every
\* scope binds the names it bound, every other binding keeps its value, S gets
\* no binding of v, listeners and edges stay, and the first scope notified is A.
C9_WritesDefiningScope ==
    [][(/\ call.op = "update_value"
        /\ find_scope_with_variable(Graph, call.index, call.var_name) # None
        /\ find_scope_with_variable(Graph, call.index, call.var_name) # Some(call.index))
       => LET A == Unwrap(find_scope_with_variable(Graph, call.index, call.var_name))
          IN  /\ Len(nodes') = Len(nodes)
              /\ edges' = edges
              /\ nodes'[A + 1].data[call.var_name] = call.value
              /\ call.var_name \notin DOMAIN nodes'[call.index + 1].data
              /\ \A s \in NodeIndices(Graph) :
                     /\ DOMAIN nodes'[s + 1].data = DOMAIN nodes[s + 1].data
                     /\ nodes'[s + 1].listeners = nodes[s + 1].listeners
                     /\ nodes'[s + 1].node_index = nodes[s + 1].node_index
                     /\ \A w \in DOMAIN nodes[s + 1].data :
                            <<s, w>> # <<A, call.var_name>>
                            => nodes'[s + 1].data[w] = nodes[s + 1].data[w]
              /\ ret'.notified # <<>>
              /\ ret'.notified[1] = <<A, call.var_name>>]_vars

\* update_value wrote count in a scope that binds it while a scope below, which
\* does not bind count, holds a derived attribute: the write went up, and the
\* scope below kept its bindings.
C9_Witness ==
    /\ ret.op = "update_value"
    /\ ret.notified # <<>>
    /\ ret.notified[1][2] = "count"
    /\ nodes[ret.notified[1][1] + 1].data["count"] = 5
    /\ \E s \in NodeIndices(Graph) :
          /\ DOMAIN nodes[s + 1].data = {"doubled"}
          /\ parent_scope_of(Graph, s) = Some(ret.notified[1][1])

\* C10: during one update_value call each listener is invoked at most once.
C10_ListenerFiresAtMostOnce ==
    ret.op = "update_value"
    => \A i, j \in 1..Len(ret.calls) :
           ret.calls[i].listener = ret.calls[j].listener => i = j

\* The listeners a pass over var_name that starts at scope defining is to invoke,
\* as <<listener, scope>>: those registered for var_name in defining and in the
\* scopes that hold a dependency link on var_name to it, whose needed variables
\* are all visible from their scope.
PassListeners(g, defining, var_name) ==
    UNION {{<<listener.id, s>> :
               listener \in {l \in Range(g.nodes[s + 1].listeners[var_name]) :
                                assemble_all_vars(g, s, l.needed_variables).ok}} :
           s \in {t \in {defining} \cup Range(children_referencing(g, defining, var_name)) :
                     var_name \in DOMAIN g.nodes[t + 1].listeners}}

\* The listeners whose callback fails.
FailingListeners(g) ==
    UNION {UNION {{l.id : l \in {m \in Range(g.nodes[n].listeners[v]) : m.fails}} :
                     v \in DOMAIN g.nodes[n].listeners} :
              n \in 1..Len(g.nodes)}

\* C11: when the callback of a listener fails during the pass of an
\* update_value call, the written value stays in place, the call reports the
\* failure, and every listener the pass is to invoke has been invoked.
C11_CollectErrors ==
    [][(/\ call.op = "update_value"
        /\ \E i \in 1..Len(ret'.calls) : ret'.calls[i].listener \in FailingListeners(Graph))
       => LET defining == Unwrap(find_scope_with_variable(Graph, call.index, call.var_name))
          IN  /\ nodes'[defining + 1].data[call.var_name] = call.value
              /\ ret'.kind = "Err"
              /\ PassListeners(GraphNext, defining, call.var_name)
                     \subseteq {<<ret'.calls[i].listener, ret'.calls[i].scope>> :
                                   i \in 1..Len(ret'.calls)}]_vars

\* The needed variables of the listener with the given identity.
NeededBy(g, id) ==
    UNION {UNION {{Range(l.needed_variables) :
                      l \in {m \in Range(g.nodes[n].listeners[v]) : m.id = id}} :
                     v \in DOMAIN g.nodes[n].listeners} :
              n \in 1..Len(g.nodes)}

\* C12: every callback invoked during update_value gets an environment whose
\* keys are exactly the needed variables of its listener, each with the value
\* lookup_variable_in_scope gives from the listener's scope once the value is
\* written; a listener on the scope the update was called on sees the new value.
C12_ListenerEnvironment ==
    [][call.op = "update_value"
       => \A i \in 1..Len(ret'.calls) :
              LET c == ret'.calls[i]
              IN  /\ NeededBy(GraphNext, c.listener) = {DOMAIN c.values}
                  /\ \A key \in DOMAIN c.values :
                         Some(c.values[key]) = lookup_variable_in_scope(GraphNext, c.scope, key)
                  /\ (c.scope = call.index /\ call.var_name \in DOMAIN c.values)
                         => c.values[call.var_name] = call.value]_vars

\* A listener on a scope below the root that binds doubled itself and inherits
\* count was invoked after update_value on its scope wrote count in the root:
\* it saw its own doubled and the new count.
C12_Witness ==
    /\ ret.op = "update_value"
    /\ \E i \in 1..Len(ret.calls) :
          /\ ret.calls[i].scope # root_index
          /\ ret.calls[i].values = ("doubled" :> 2) @@ ("count" :> 5)
          /\ "count" \notin DOMAIN nodes[ret.calls[i].scope + 1].data
          /\ nodes[root_index + 1].data["count"] = 5

\* C13: a register_new_scope call that fails with an unresolved variable has
\* evaluated no attribute expression.
C13_ValidateBeforeEvaluate ==
    (ret.op = "register_new_scope" /\ ret.kind = "Err") => ret.evaluated = <<>>

\* C14: the error of a register_new_scope call that fails on an unresolved
\* reference names one variable, which some attribute expression of the call
\* references and which is not visible from the calling scope.
C14_ErrorNamesVariable ==
    [][(call.op = "register_new_scope" /\ ret'.kind = "Err")
       => \E v \in VarNames :
              /\ ret'.var = Some(v)
              /\ \E a \in DOMAIN call.attributes :
                     v \in Range(collect_var_refs(call.attributes[a]))
              /\ lookup_variable_in_scope(Graph, call.calling_scope, v) = None]_vars

\* A call failed naming doubled, which a scope of the graph binds but the
\* calling scope does not see.
C14_Witness ==
    /\ ret.op = "register_new_scope"
    /\ ret.kind = "Err"
    /\ ret.var = Some("doubled")
    /\ \E s \in NodeIndices(Graph) : "doubled" \in DOMAIN nodes[s + 1].data

\* C15: whatever NodeIndex values register_new_scope is called with, when the
\* call is over either the graph is as it was, or it holds one more scope that
\* binds every attribute and has its Inherits edge to the given parent, if one
\* was given, and one ProvidesAttribute edge from the calling scope per attribute.
C15_NoHalfBuiltScope ==
    [][call.op = "register_new_scope"
       => \/ nodes' = nodes /\ edges' = edges
          \/ LET new == Len(nodes)
             IN  /\ Len(nodes') = Len(nodes) + 1
                 /\ SubSeq(nodes', 1, Len(nodes)) = nodes
                 /\ DOMAIN nodes'[new + 1].data = DOMAIN call.attributes
                 /\ {e \in AddedEdges : e.weight.kind = "Inherits"}
                       = {[from |-> new, to |-> p, weight |-> Inherits({})] :
                             p \in call.parent_scope}
                 /\ {e \in AddedEdges : e.weight.kind = "ProvidesAttribute"}
                       = {[from |-> call.calling_scope, to |-> new,
                           weight |-> ProvidesAttribute(a, call.attributes[a])] :
                              a \in DOMAIN call.attributes}]_vars

\* C16: between the calls, every scope's node_index is the index of the node
\* that holds it (so distinct scopes have distinct identities, and no scope but
\* the root shows NodeIndex::default()), and root_index is the node that holds
\* the global variables the tree was made from.
C16_IdentityIsPosition ==
    /\ \A i \in NodeIndices(Graph) : nodes[i + 1].node_index = i
    /\ \A i \in NodeIndices(Graph) \ {root_index} : nodes[i + 1].node_index # DefaultNodeIndex
    /\ root_index \in NodeIndices(Graph)
    /\ DOMAIN nodes[root_index + 1].data \in {DOMAIN global_vars : global_vars \in GlobalVarInputs}
    /\ updates = 0 => nodes[root_index + 1].data \in GlobalVarInputs

\* The second of two registrations has just returned the index 2, and the scope
\* at node 2 stores it.
C16_Witness ==
    /\ ret.op = "register_new_scope"
    /\ ret.index = Some(2)
    /\ Len(nodes) = 3
    /\ nodes[3].node_index = 2

\* C17: a successful register_new_scope leaves every node and every edge that
\* was there as it was (bindings, listeners, identity), adds no Inherits edge
\* that leaves a scope that was there, and so changes neither
\* lookup_variable_in_scope nor parent_scope_of for any such scope.
C17_RegisterFrame ==
    [][(call.op = "register_new_scope" /\ ret'.kind = "Ok")
       => /\ SubSeq(nodes', 1, Len(nodes)) = nodes
          /\ SubSeq(edges', 1, Len(edges)) = edges
          /\ \A e \in AddedEdges : is_inherits_relation(e.weight) => e.from = Len(nodes)
          /\ \A s \in NodeIndices(Graph) :
                 /\ parent_scope_of(GraphNext, s) = parent_scope_of(Graph, s)
                 /\ \A v \in VarNames :
                        lookup_variable_in_scope(GraphNext, s, v)
                            = lookup_variable_in_scope(Graph, s, v)]_vars

\* A scope was registered by a calling scope that has a parent and a listener of
\* its own: the newest edge that leaves the calling scope is the ProvidesAttribute
\* edge to the new scope, and the new scope binds count, which the calling scope
\* reads from its parent.
C17_Witness ==
    /\ ret.op = "register_new_scope"
    /\ ret.kind = "Ok"
    /\ \E new \in ret.index :
          /\ "count" \in DOMAIN nodes[new + 1].data
          /\ \E i, j \in 1..Len(edges) :
                 /\ i < j
                 /\ edges[i].from = edges[j].from
                 /\ is_inherits_relation(edges[i].weight)
                 /\ edges[j].to = new
                 /\ edges[j].weight.kind = "ProvidesAttribute"
                 /\ nodes[edges[j].from + 1].listeners # EmptyMap
                 /\ "count" \notin DOMAIN nodes[edges[j].from + 1].data

\* C18: parent_scope_of gives only a scope that an Inherits edge leads to, and a
\* variable is found only in the scope itself or in one reached over Inherits
\* edges; a scope registered with parent P by calling scope C sees, beside its
\* attributes, what P sees, whatever C sees.
C18_VisibilityByInheritsOnly ==
    /\ [](\A s \in NodeIndices(Graph) :
             /\ \A p \in parent_scope_of(Graph, s) :
                    \E i \in InheritsOut(s) : edges[i].to = p
             /\ \A v \in VarNames :
                    \A d \in find_scope_with_variable(Graph, s, v) :
                        d = s \/ d \in InheritsReach({s}, Len(nodes)))
    /\ [][(call.op = "register_new_scope" /\ ret'.kind = "Ok")
           => \A v \in VarNames \ DOMAIN call.attributes :
                  lookup_variable_in_scope(GraphNext, Len(nodes), v)
                     = UNION {lookup_variable_in_scope(Graph, p, v) :
                                 p \in call.parent_scope}]_vars

\* A scope was registered under a parent that does not see doubled by a calling
\* scope that binds doubled: the new scope does not see doubled. Its parent is
\* the calling scope of another scope.
C18_Witness ==
    /\ ret.op = "register_new_scope"
    /\ ret.kind = "Ok"
    /\ \E new \in ret.index :
          /\ lookup_variable_in_scope(Graph, new, "doubled") = None
          /\ parent_scope_of(Graph, new) # None
          /\ \E j \in AttributeEdges :
                 /\ edges[j].to = new
                 /\ "doubled" \in DOMAIN nodes[edges[j].from + 1].data
                 /\ parent_scope_of(Graph, new) # Some(edges[j].from)
          /\ \E k \in AttributeEdges : Some(edges[k].from) = parent_scope_of(Graph, new)

\* C19: no register_new_scope call panics in the unwrap of eval: whenever the
\* references of an attribute expression all resolve from the calling scope, the
\* environment collected for it binds every variable the expression references
\* and its evaluation succeeds; and the scope find_scope_with_variable gives is
\* a node of the graph that binds the variable, which is what the unwrap in
\* lookup_variable_in_scope needs.
C19_EvalEnvironmentComplete ==
    /\ [](ret.kind # "Panic")
    /\ [](\A s \in NodeIndices(Graph), v \in VarNames :
             \A d \in find_scope_with_variable(Graph, s, v) :
                 d \in NodeIndices(Graph) /\ v \in DOMAIN nodes[d + 1].data)
    /\ [][call.op = "register_new_scope"
           => \A a \in DOMAIN call.attributes :
                  LET needed_vars == resolve_var_refs(Graph, call.calling_scope,
                                         collect_var_refs(call.attributes[a]))
                  IN  needed_vars.ok
                      => /\ Range(collect_var_refs(call.attributes[a]))
                               = DOMAIN needed_vars.env
                         /\ eval(call.attributes[a], needed_vars.env).ok]_vars

\* Two attributes were evaluated in one call, for a calling scope that binds
\* none of the variables they reference: the values came from its ancestors.
C19_Witness ==
    /\ ret.op = "register_new_scope"
    /\ ret.kind = "Ok"
    /\ Len(ret.evaluated) = 2
    /\ \E new \in ret.index :
          \E j \in AttributeEdges :
              /\ edges[j].to = new
              /\ edges[j].from # root_index
              /\ \A k \in AttributeEdges :
                     edges[k].to = new
                     => Range(collect_var_refs(edges[k].weight.expression))
                            \cap DOMAIN nodes[edges[k].from + 1].data = {}

\* The names the bodies lead to from the definition of name, in at most fuel steps.
RECURSIVE BodyChain(_, _, _)
BodyChain(widget_defs, name, fuel) ==
    IF fuel = 0 \/ name \notin DOMAIN widget_defs THEN {}
    ELSE {widget_defs[name].widget.name}
            \cup BodyChain(widget_defs, widget_defs[name].widget.name, fuel - 1)

\* No definition has a body that leads back to it.
NoSelfUse(widget_defs) ==
    \A name \in DOMAIN widget_defs :
        name \notin BodyChain(widget_defs, name, Cardinality(DOMAIN widget_defs))

\* A level of build_gtk_widget registered one scope for the use at hand, under
\* the root and called from the scope the use is built in, and goes on with the
\* body of the definition in the new scope.
RegistersOneScope ==
    LET new == Len(nodes)
    IN  /\ Len(nodes') = Len(nodes) + 1
        /\ SubSeq(edges', 1, Len(edges)) = edges
        /\ {e \in AddedEdges : e.weight.kind = "Inherits"}
              = {[from |-> new, to |-> root_index, weight |-> Inherits({})]}
        /\ {e \in AddedEdges : e.weight.kind = "ProvidesAttribute"}
              = {[from |-> call.index, to |-> new,
                  weight |-> ProvidesAttribute(a, call.widget_use.attrs[a])] :
                     a \in DOMAIN call.widget_use.attrs}
        /\ parent_scope_of(GraphNext, new) = Some(root_index)
        /\ call'.op = "build_gtk_widget"
        /\ call'.index = new
        /\ call'.widget_use = call.widget_defs[call.widget_use.name].widget
        /\ call'.widget_defs = call.widget_defs

\* Every scope build_gtk_widget has registered has the root as its parent, and
\* with definitions that do not lead back to themselves it has registered no
\* more scopes than there are definitions.
RegisteredUnderRoot ==
    ret.op = "build_gtk_widget"
    => /\ \A i \in 1..Len(ret.registered) :
              parent_scope_of(Graph, ret.registered[i].scope) = Some(root_index)
       /\ (call.op = "build_gtk_widget" /\ NoSelfUse(call.widget_defs))
              => Len(ret.registered) <= Cardinality(DOMAIN call.widget_defs)

====
